---- MODULE Spec2Model ----
(***************************************************************************)
(* Model of models/ortho_convnext.py: the ConvNeXt backbone whose residual *)
(* Blocks take their activation from a constructor argument, the LayerNorm *)
(* helper with its two data formats, and the registry of named model       *)
(* constructors.                                                           *)
(*                                                                         *)
(* Tensors are abstracted to their shapes.  Python lists are functions on  *)
(* 0..n-1 so that the indices are the indices of the source.  A rate is a  *)
(* whole number of quanta (the smallest positive value of the float        *)
(* format): drop_path_rate arrives as a Python float (a double, which      *)
(* holds every rate used here exactly) and torch.linspace returns float32  *)
(* values, so every entry of dp_rates is rounded to Mantissa significant   *)
(* bits.  linspace is taken by its documented meaning (evenly spaced       *)
(* points, both ends included, one step giving the start alone) with each  *)
(* point correctly rounded.                                                *)
(***************************************************************************)
EXTENDS Integers, Sequences, FiniteSets, TLC

VARIABLES
    pc,        \* "start", "constructed" (a ConvNeXt exists), "layernorm"
    model,     \* the ConvNeXt object: its modules, parameters and bookkeeping
    calls,     \* number of forward / forward_features calls made on the model
    out,       \* what the last forward / forward_features call returned
    entry,     \* the name of the registered constructor that built the model
    ln,        \* a LayerNorm constructed on its own (or the raise of its __init__)
    ln_format, \* the data_format that LayerNorm was asked for
    ln_out     \* what the last call of ln.forward returned

vars == <<pc, model, entry, calls, out, ln, ln_format, ln_out>>

----------------------------------------------------------------------------
(* Bounds of the exploration *)

MaxDepth == 2        \* largest depths[i] tried when ConvNeXt is called directly
MaxCalls == 2        \* forward calls followed on one model

(* Program constants *)

Mantissa == 24       \* significant bits of float32, the dtype of torch.linspace
NumStages == 4       \* for i in range(4)
NumDownsample == 3   \* for i in range(3)
DefaultInChans == 3
DefaultNumClasses == 1000
DefaultDims == [i \in 0..3 |-> <<96, 192, 384, 768>>[i + 1]]

----------------------------------------------------------------------------
(* Python lists, indexed from 0 *)

Tuple0(s) == [i \in 0..(Len(s) - 1) |-> s[i + 1]]

PyLen(f) == Cardinality(DOMAIN f)

RECURSIVE SumTo(_, _)
SumTo(f, n) == IF n = 0 THEN 0 ELSE SumTo(f, n - 1) + f[n - 1]

\* sum(depths)
PySum(f) == SumTo(f, PyLen(f))

RECURSIVE ConcatTo(_, _)
ConcatTo(f, n) == IF n = 0 THEN <<>> ELSE ConcatTo(f, n - 1) \o f[n - 1]

----------------------------------------------------------------------------
(* float32 values, in quanta *)

Pow2(n) == 2 ^ n

\* the number of bits of x (0 <= x < 2^31)
BitLen(x) == Cardinality({n \in 0..30 : Pow2(n) <= x})

\* a / b rounded to the nearest integer, ties to even
RoundHalfEven(a, b) ==
    LET q == a \div b
        r == a % b
    IN  IF 2 * r < b THEN q
        ELSE IF 2 * r > b THEN q + 1
        ELSE IF q % 2 = 0 THEN q ELSE q + 1

\* the float32 nearest to the rational a / b (a >= 0, b > 0)
Float32(a, b) ==
    LET s == IF BitLen(a \div b) > Mantissa THEN BitLen(a \div b) - Mantissa ELSE 0
    IN  RoundHalfEven(a, b * Pow2(s)) * Pow2(s)

\* torch.linspace(start, end, steps) followed by x.item() for each x
Linspace(start, end, steps) ==
    [k \in 0..(steps - 1) |->
        IF steps = 1 THEN Float32(start, 1)
        ELSE Float32(start * (steps - 1) + k * (end - start), steps - 1)]

----------------------------------------------------------------------------
(* The registry of named constructors.  A name is the sequence of its      *)
(* characters; kw holds exactly the keyword arguments the constructor      *)
(* binds with functools.partial.                                           *)

convnext_hermite_tiny ==
    [ name   |-> <<"c", "o", "n", "v", "n", "e", "x", "t", "_", "h", "e", "r", "m", "i", "t", "e", "_", "t", "i", "n", "y">>,
      depths |-> Tuple0(<<3, 3, 9, 3>>),
      dims   |-> Tuple0(<<96, 192, 384, 768>>),
      act    |-> [cls |-> "HermiteActivation", kw |-> [degree |-> 3]] ]

convnext_hermite_small ==
    [ name   |-> <<"c", "o", "n", "v", "n", "e", "x", "t", "_", "h", "e", "r", "m", "i", "t", "e", "_", "s", "m", "a", "l", "l">>,
      depths |-> Tuple0(<<3, 3, 27, 3>>),
      dims   |-> Tuple0(<<96, 192, 384, 768>>),
      act    |-> [cls |-> "HermiteActivation", kw |-> [degree |-> 3]] ]

convnext_hermite_base ==
    [ name   |-> <<"c", "o", "n", "v", "n", "e", "x", "t", "_", "h", "e", "r", "m", "i", "t", "e", "_", "b", "a", "s", "e">>,
      depths |-> Tuple0(<<3, 3, 27, 3>>),
      dims   |-> Tuple0(<<128, 256, 512, 1024>>),
      act    |-> [cls |-> "HermiteActivation", kw |-> [degree |-> 3]] ]

convnext_fourier_tiny ==
    [ name   |-> <<"c", "o", "n", "v", "n", "e", "x", "t", "_", "f", "o", "u", "r", "i", "e", "r", "_", "t", "i", "n", "y">>,
      depths |-> Tuple0(<<3, 3, 9, 3>>),
      dims   |-> Tuple0(<<96, 192, 384, 768>>),
      act    |-> [cls |-> "FourierActivation", kw |-> [degree |-> 5]] ]

\* variant: the small constructor copied from tiny with its depths unchanged
convnext_fourier_small_TinyDepths ==
    [ name   |-> <<"c", "o", "n", "v", "n", "e", "x", "t", "_", "f", "o", "u", "r", "i", "e", "r", "_", "s", "m", "a", "l", "l">>,
      depths |-> Tuple0(<<3, 3, 9, 3>>),
      dims   |-> Tuple0(<<96, 192, 384, 768>>),
      act    |-> [cls |-> "FourierActivation", kw |-> [degree |-> 5]] ]

convnext_fourier_small ==
    [ name   |-> <<"c", "o", "n", "v", "n", "e", "x", "t", "_", "f", "o", "u", "r", "i", "e", "r", "_", "s", "m", "a", "l", "l">>,
      depths |-> Tuple0(<<3, 3, 27, 3>>),
      dims   |-> Tuple0(<<96, 192, 384, 768>>),
      act    |-> [cls |-> "FourierActivation", kw |-> [degree |-> 5]] ]

convnext_fourier_base ==
    [ name   |-> <<"c", "o", "n", "v", "n", "e", "x", "t", "_", "f", "o", "u", "r", "i", "e", "r", "_", "b", "a", "s", "e">>,
      depths |-> Tuple0(<<3, 3, 27, 3>>),
      dims   |-> Tuple0(<<128, 256, 512, 1024>>),
      act    |-> [cls |-> "FourierActivation", kw |-> [degree |-> 5]] ]

convnext_tropical_tiny ==
    [ name   |-> <<"c", "o", "n", "v", "n", "e", "x", "t", "_", "t", "r", "o", "p", "i", "c", "a", "l", "_", "t", "i", "n", "y">>,
      depths |-> Tuple0(<<3, 3, 9, 3>>),
      dims   |-> Tuple0(<<96, 192, 384, 768>>),
      act    |-> [cls |-> "TropicalActivation", kw |-> [degree |-> 5]] ]

convnext_tropical_small ==
    [ name   |-> <<"c", "o", "n", "v", "n", "e", "x", "t", "_", "t", "r", "o", "p", "i", "c", "a", "l", "_", "s", "m", "a", "l", "l">>,
      depths |-> Tuple0(<<3, 3, 27, 3>>),
      dims   |-> Tuple0(<<96, 192, 384, 768>>),
      act    |-> [cls |-> "TropicalActivation", kw |-> [degree |-> 5]] ]

convnext_tropical_base ==
    [ name   |-> <<"c", "o", "n", "v", "n", "e", "x", "t", "_", "t", "r", "o", "p", "i", "c", "a", "l", "_", "b", "a", "s", "e">>,
      depths |-> Tuple0(<<3, 3, 27, 3>>),
      dims   |-> Tuple0(<<128, 256, 512, 1024>>),
      act    |-> [cls |-> "TropicalActivation", kw |-> [degree |-> 5]] ]

convnext_hermite_deg2_tiny ==
    [ name   |-> <<"c", "o", "n", "v", "n", "e", "x", "t", "_", "h", "e", "r", "m", "i", "t", "e", "_", "d", "e", "g", "2", "_", "t", "i", "n", "y">>,
      depths |-> Tuple0(<<3, 3, 9, 3>>),
      dims   |-> Tuple0(<<96, 192, 384, 768>>),
      act    |-> [cls |-> "HermiteActivation", kw |-> [degree |-> 2]] ]

convnext_fourier_deg1_tiny ==
    [ name   |-> <<"c", "o", "n", "v", "n", "e", "x", "t", "_", "f", "o", "u", "r", "i", "e", "r", "_", "d", "e", "g", "1", "_", "t", "i", "n", "y">>,
      depths |-> Tuple0(<<3, 3, 9, 3>>),
      dims   |-> Tuple0(<<96, 192, 384, 768>>),
      act    |-> [cls |-> "FourierActivation", kw |-> [degree |-> 1]] ]

convnext_fourier_deg3_tiny ==
    [ name   |-> <<"c", "o", "n", "v", "n", "e", "x", "t", "_", "f", "o", "u", "r", "i", "e", "r", "_", "d", "e", "g", "3", "_", "t", "i", "n", "y">>,
      depths |-> Tuple0(<<3, 3, 9, 3>>),
      dims   |-> Tuple0(<<96, 192, 384, 768>>),
      act    |-> [cls |-> "FourierActivation", kw |-> [degree |-> 3]] ]

convnext_fourier_deg4_tiny ==
    [ name   |-> <<"c", "o", "n", "v", "n", "e", "x", "t", "_", "f", "o", "u", "r", "i", "e", "r", "_", "d", "e", "g", "4", "_", "t", "i", "n", "y">>,
      depths |-> Tuple0(<<3, 3, 9, 3>>),
      dims   |-> Tuple0(<<96, 192, 384, 768>>),
      act    |-> [cls |-> "FourierActivation", kw |-> [degree |-> 4]] ]

convnext_fourier_deg6_tiny ==
    [ name   |-> <<"c", "o", "n", "v", "n", "e", "x", "t", "_", "f", "o", "u", "r", "i", "e", "r", "_", "d", "e", "g", "6", "_", "t", "i", "n", "y">>,
      depths |-> Tuple0(<<3, 3, 9, 3>>),
      dims   |-> Tuple0(<<96, 192, 384, 768>>),
      act    |-> [cls |-> "FourierActivation", kw |-> [degree |-> 6]] ]

convnext_tropical_deg1_tiny ==
    [ name   |-> <<"c", "o", "n", "v", "n", "e", "x", "t", "_", "t", "r", "o", "p", "i", "c", "a", "l", "_", "d", "e", "g", "1", "_", "t", "i", "n", "y">>,
      depths |-> Tuple0(<<3, 3, 9, 3>>),
      dims   |-> Tuple0(<<96, 192, 384, 768>>),
      act    |-> [cls |-> "TropicalActivation", kw |-> [degree |-> 1]] ]

convnext_tropical_deg3_tiny ==
    [ name   |-> <<"c", "o", "n", "v", "n", "e", "x", "t", "_", "t", "r", "o", "p", "i", "c", "a", "l", "_", "d", "e", "g", "3", "_", "t", "i", "n", "y">>,
      depths |-> Tuple0(<<3, 3, 9, 3>>),
      dims   |-> Tuple0(<<96, 192, 384, 768>>),
      act    |-> [cls |-> "TropicalActivation", kw |-> [degree |-> 3]] ]

convnext_hermite_clamp_tiny ==
    [ name   |-> <<"c", "o", "n", "v", "n", "e", "x", "t", "_", "h", "e", "r", "m", "i", "t", "e", "_", "c", "l", "a", "m", "p", "_", "t", "i", "n", "y">>,
      depths |-> Tuple0(<<3, 3, 9, 3>>),
      dims   |-> Tuple0(<<96, 192, 384, 768>>),
      act    |-> [cls |-> "HermiteActivation", kw |-> [degree |-> 3, clamp |-> "True"]] ]

convnext_tropical_deg6_tiny ==
    [ name   |-> <<"c", "o", "n", "v", "n", "e", "x", "t", "_", "t", "r", "o", "p", "i", "c", "a", "l", "_", "d", "e", "g", "6", "_", "t", "i", "n", "y">>,
      depths |-> Tuple0(<<3, 3, 9, 3>>),
      dims   |-> Tuple0(<<96, 192, 384, 768>>),
      act    |-> [cls |-> "TropicalActivation", kw |-> [degree |-> 6]] ]

convnext_tropical_deg9_tiny ==
    [ name   |-> <<"c", "o", "n", "v", "n", "e", "x", "t", "_", "t", "r", "o", "p", "i", "c", "a", "l", "_", "d", "e", "g", "9", "_", "t", "i", "n", "y">>,
      depths |-> Tuple0(<<3, 3, 9, 3>>),
      dims   |-> Tuple0(<<96, 192, 384, 768>>),
      act    |-> [cls |-> "TropicalActivation", kw |-> [degree |-> 9]] ]

convnext_tropical_deg12_tiny ==
    [ name   |-> <<"c", "o", "n", "v", "n", "e", "x", "t", "_", "t", "r", "o", "p", "i", "c", "a", "l", "_", "d", "e", "g", "1", "2", "_", "t", "i", "n", "y">>,
      depths |-> Tuple0(<<3, 3, 9, 3>>),
      dims   |-> Tuple0(<<96, 192, 384, 768>>),
      act    |-> [cls |-> "TropicalActivation", kw |-> [degree |-> 12]] ]

convnext_hermite_gelu_tiny ==
    [ name   |-> <<"c", "o", "n", "v", "n", "e", "x", "t", "_", "h", "e", "r", "m", "i", "t", "e", "_", "g", "e", "l", "u", "_", "t", "i", "n", "y">>,
      depths |-> Tuple0(<<3, 3, 9, 3>>),
      dims   |-> Tuple0(<<96, 192, 384, 768>>),
      act    |-> [cls |-> "HermiteActivation", kw |-> [degree |-> 3, act_init |-> "GELU"]] ]

convnext_fourier_deg6_gelu_tiny ==
    [ name   |-> <<"c", "o", "n", "v", "n", "e", "x", "t", "_", "f", "o", "u", "r", "i", "e", "r", "_", "d", "e", "g", "6", "_", "g", "e", "l", "u", "_", "t", "i", "n", "y">>,
      depths |-> Tuple0(<<3, 3, 9, 3>>),
      dims   |-> Tuple0(<<96, 192, 384, 768>>),
      act    |-> [cls |-> "FourierActivation", kw |-> [degree |-> 6, act_init |-> "GELU"]] ]

convnext_tropical_deg12_gelu_tiny ==
    [ name   |-> <<"c", "o", "n", "v", "n", "e", "x", "t", "_", "t", "r", "o", "p", "i", "c", "a", "l", "_", "d", "e", "g", "1", "2", "_", "g", "e", "l", "u", "_", "t", "i", "n", "y">>,
      depths |-> Tuple0(<<3, 3, 9, 3>>),
      dims   |-> Tuple0(<<96, 192, 384, 768>>),
      act    |-> [cls |-> "TropicalActivation", kw |-> [degree |-> 12, act_init |-> "GELU"]] ]

convnext_hermite_no_grad_tiny ==
    [ name   |-> <<"c", "o", "n", "v", "n", "e", "x", "t", "_", "h", "e", "r", "m", "i", "t", "e", "_", "n", "o", "_", "g", "r", "a", "d", "_", "t", "i", "n", "y">>,
      depths |-> Tuple0(<<3, 3, 9, 3>>),
      dims   |-> Tuple0(<<96, 192, 384, 768>>),
      act    |-> [cls |-> "HermiteActivation", kw |-> [degree |-> 3, requires_grad |-> "False"]] ]

convnext_fourier_deg6_no_grad_tiny ==
    [ name   |-> <<"c", "o", "n", "v", "n", "e", "x", "t", "_", "f", "o", "u", "r", "i", "e", "r", "_", "d", "e", "g", "6", "_", "n", "o", "_", "g", "r", "a", "d", "_", "t", "i", "n", "y">>,
      depths |-> Tuple0(<<3, 3, 9, 3>>),
      dims   |-> Tuple0(<<96, 192, 384, 768>>),
      act    |-> [cls |-> "FourierActivation", kw |-> [degree |-> 6, requires_grad |-> "False"]] ]

convnext_tropical_deg12_no_grad_tiny ==
    [ name   |-> <<"c", "o", "n", "v", "n", "e", "x", "t", "_", "t", "r", "o", "p", "i", "c", "a", "l", "_", "d", "e", "g", "1", "2", "_", "n", "o", "_", "g", "r", "a", "d", "_", "t", "i", "n", "y">>,
      depths |-> Tuple0(<<3, 3, 9, 3>>),
      dims   |-> Tuple0(<<96, 192, 384, 768>>),
      act    |-> [cls |-> "TropicalActivation", kw |-> [degree |-> 12, requires_grad |-> "False"]] ]

Registry ==
    { convnext_hermite_tiny,
      convnext_hermite_small,
      convnext_hermite_base,
      convnext_fourier_tiny,
      convnext_fourier_small,
      convnext_fourier_base,
      convnext_tropical_tiny,
      convnext_tropical_small,
      convnext_tropical_base,
      convnext_hermite_deg2_tiny,
      convnext_fourier_deg1_tiny,
      convnext_fourier_deg3_tiny,
      convnext_fourier_deg4_tiny,
      convnext_fourier_deg6_tiny,
      convnext_tropical_deg1_tiny,
      convnext_tropical_deg3_tiny,
      convnext_hermite_clamp_tiny,
      convnext_tropical_deg6_tiny,
      convnext_tropical_deg9_tiny,
      convnext_tropical_deg12_tiny,
      convnext_hermite_gelu_tiny,
      convnext_fourier_deg6_gelu_tiny,
      convnext_tropical_deg12_gelu_tiny,
      convnext_hermite_no_grad_tiny,
      convnext_fourier_deg6_no_grad_tiny,
      convnext_tropical_deg12_no_grad_tiny }

\* act=nn.GELU, the default of Block and of ConvNeXt
GELU == [cls |-> "GELU", kw |-> [k \in {} |-> 0]]

----------------------------------------------------------------------------
(* LayerNorm *)

DataFormats == {"channels_last", "channels_first"}

\* variant: the data_format check is left out
LayerNormInit_NoCheck(normalized_shape, data_format) ==
    [raised |-> "no",
     type |-> "LayerNorm",
     weight |-> "ones",
     bias |-> "zeros",
     data_format |-> data_format,
     normalized_shape |-> normalized_shape]

\* LayerNorm.__init__: the object, or the exception it raises
LayerNormInit(normalized_shape, data_format) ==
    IF data_format \notin DataFormats
    THEN [raised |-> "NotImplementedError"]
    ELSE [raised |-> "no",
          type |-> "LayerNorm",
          weight |-> "ones",
          bias |-> "zeros",
          data_format |-> data_format,
          normalized_shape |-> normalized_shape]

\* LayerNorm.forward: a tensor of the shape of x, or None when no branch returns
LayerNormForward(self, x) ==
    IF self.data_format = "channels_last" THEN [none |-> FALSE, shape |-> x]
    ELSE IF self.data_format = "channels_first" THEN [none |-> FALSE, shape |-> x]
    ELSE [none |-> TRUE]

----------------------------------------------------------------------------
(* Block *)

\* variant: the act argument is ignored and the default activation is built
BlockInit_DefaultAct(dim, drop_path, layer_scale_init_value, act) ==
    [ dim       |-> dim,
      dwconv    |-> [type |-> "Conv2d", in |-> dim, out |-> dim, kernel_size |-> 7, stride |-> 1],
      norm      |-> LayerNormInit(dim, "channels_last"),
      pwconv1   |-> [type |-> "Linear", in |-> dim, out |-> 4 * dim],
      act       |-> GELU,
      pwconv2   |-> [type |-> "Linear", in |-> 4 * dim, out |-> dim],
      gamma     |-> IF layer_scale_init_value > 0 THEN "Parameter" ELSE "None",
      rate      |-> drop_path,
      drop_path |-> IF drop_path > 0 THEN "DropPath" ELSE "Identity" ]

\* Block.__init__
BlockInit(dim, drop_path, layer_scale_init_value, act) ==
    [ dim       |-> dim,
      dwconv    |-> [type |-> "Conv2d", in |-> dim, out |-> dim, kernel_size |-> 7, stride |-> 1],
      norm      |-> LayerNormInit(dim, "channels_last"),
      pwconv1   |-> [type |-> "Linear", in |-> dim, out |-> 4 * dim],
      act       |-> act,
      pwconv2   |-> [type |-> "Linear", in |-> 4 * dim, out |-> dim],
      gamma     |-> IF layer_scale_init_value > 0 THEN "Parameter" ELSE "None",
      rate      |-> drop_path,
      drop_path |-> IF drop_path > 0 THEN "DropPath" ELSE "Identity" ]

ShapeError == [n |-> 0, c |-> 0, h |-> 0, w |-> 0]

\* Block.forward: dwconv and pwconv1 take dim channels, and every step up to
\* input + drop_path(x) keeps the shape of x
BlockForward(self, x) ==
    IF x.c # self.dwconv.in \/ LayerNormForward(self.norm, x).none
    THEN ShapeError
    ELSE LayerNormForward(self.norm, x).shape

----------------------------------------------------------------------------
(* ConvNeXt.__init__ *)

\* self.downsample_layers: the stem, then one layer per i in range(3)
DownsampleLayers(in_chans, dims) ==
    [k \in 0..NumDownsample |->
        IF k = 0
        THEN Tuple0(<<[type |-> "Conv2d", in |-> in_chans, out |-> dims[0],
                       kernel_size |-> 4, stride |-> 4],
                      LayerNormInit(dims[0], "channels_first")>>)
        ELSE Tuple0(<<LayerNormInit(dims[k - 1], "channels_first"),
                      [type |-> "Conv2d", in |-> dims[k - 1], out |-> dims[k],
                       kernel_size |-> 2, stride |-> 2]>>)]

\* variant: cur is never advanced
Cur_NotAdvanced(depths, i) == 0

\* cur at the top of iteration i of the stage loop (cur = 0; cur += depths[i])
Cur(depths, i) == SumTo(depths, i)

\* the index into dp_rates of Block j of stage i
DpIndex(depths, i, j) == Cur(depths, i) + j

\* the indices cur + j in the order the stage loop evaluates them
DpIndexTrace(depths) ==
    ConcatTo([i \in 0..(NumStages - 1) |->
                 [j1 \in 1..depths[i] |-> DpIndex(depths, i, j1 - 1)]], NumStages)

\* variant: every stage is built with the first dimension
Stages_FirstDim(depths, dims, dp_rates, layer_scale_init_value, act) ==
    [i \in 0..(NumStages - 1) |->
        [j \in 0..(depths[i] - 1) |->
            BlockInit(dims[0], dp_rates[DpIndex(depths, i, j)],
                      layer_scale_init_value, act)]]

\* self.stages
Stages(depths, dims, dp_rates, layer_scale_init_value, act) ==
    [i \in 0..(NumStages - 1) |->
        [j \in 0..(depths[i] - 1) |->
            BlockInit(dims[i], dp_rates[DpIndex(depths, i, j)],
                      layer_scale_init_value, act)]]

\* a submodule of the model: where it sits and what it is
Module(kind, i, j, sub, type) ==
    [path |-> [kind |-> kind, i |-> i, j |-> j, sub |-> sub], type |-> type]

BlockChildren ==
    <<[sub |-> "dwconv", type |-> "Conv2d"],
      [sub |-> "norm", type |-> "LayerNorm"],
      [sub |-> "pwconv1", type |-> "Linear"],
      [sub |-> "act", type |-> "Activation"],
      [sub |-> "pwconv2", type |-> "Linear"],
      [sub |-> "drop_path", type |-> "DropPath/Identity"],
      [sub |-> "self", type |-> "Block"]>>

\* the modules self.apply visits, children before their parent
ApplyOrder(depths, downsample_layers) ==
    ConcatTo([k \in 0..NumDownsample |->
                 <<Module("downsample_layers", k, 0, "0", downsample_layers[k][0].type),
                   Module("downsample_layers", k, 0, "1", downsample_layers[k][1].type),
                   Module("downsample_layers", k, 0, "self", "Sequential")>>],
             NumDownsample + 1)
    \o <<Module("downsample_layers", 0, 0, "list", "ModuleList")>>
    \o ConcatTo([i \in 0..(NumStages - 1) |->
                    [c \in 1..(depths[i] * Len(BlockChildren)) |->
                        Module("stages", i, (c - 1) \div Len(BlockChildren),
                               BlockChildren[((c - 1) % Len(BlockChildren)) + 1].sub,
                               BlockChildren[((c - 1) % Len(BlockChildren)) + 1].type)]
                    \o <<Module("stages", i, 0, "seq", "Sequential")>>],
                NumStages)
    \o <<Module("stages", 0, 0, "list", "ModuleList"),
         Module("norm", 0, 0, "self", "nn.LayerNorm"),
         Module("head", 0, 0, "self", "Linear"),
         Module("model", 0, 0, "self", "ConvNeXt")>>

\* _init_weights(m): does it initialise m
InitWeights(m) == m.type \in {"Conv2d", "Linear"}

\* how many times self.apply(self._init_weights) initialised each module
InitCalls(order) ==
    [p \in {order[k].path : k \in 1..Len(order)} |->
        Cardinality({k \in 1..Len(order) : order[k].path = p /\ InitWeights(order[k])})]

HeadPath == [kind |-> "head", i |-> 0, j |-> 0, sub |-> "self"]

\* ConvNeXt.__init__
ConvNeXtInit(in_chans, num_classes, depths, dims, drop_path_rate, layer_scale_init_value, head_init_scale, act) ==
    LET downsample_layers == DownsampleLayers(in_chans, dims)
        dp_rates == Linspace(0, drop_path_rate, PySum(depths))
        trace == DpIndexTrace(depths)
        order == ApplyOrder(depths, downsample_layers)
    IN  IF \E k \in 1..Len(trace) : trace[k] \notin DOMAIN dp_rates
        THEN [raised |-> "IndexError"]
        ELSE [ raised |-> "no",
               depths |-> depths,
               dims |-> dims,
               drop_path_rate |-> drop_path_rate,
               dp_rates |-> dp_rates,
               dp_index |-> trace,
               downsample_layers |-> downsample_layers,
               stages |-> Stages(depths, dims, dp_rates, layer_scale_init_value, act),
               norm |-> [type |-> "nn.LayerNorm", normalized_shape |-> dims[PyLen(dims) - 1]],
               head |-> [type |-> "Linear", in |-> dims[PyLen(dims) - 1], out |-> num_classes],
               modules |-> {order[k] : k \in 1..Len(order)},
               init_calls |-> InitCalls(order),
               head_mul |-> <<head_init_scale>> ]

----------------------------------------------------------------------------
(* forward *)

\* nn.Sequential of a downsampling layer: the Conv2d sets the channels and
\* divides the height and width by its stride, the LayerNorm keeps the shape
DownsampleForward(layer, x) ==
    LET conv == IF layer[0].type = "Conv2d" THEN layer[0] ELSE layer[1]
    IN  IF x.c # conv.in THEN ShapeError
        ELSE [n |-> x.n, c |-> conv.out,
              h |-> x.h \div conv.stride, w |-> x.w \div conv.stride]

\* nn.Sequential of the Blocks of a stage: each Block hands its input's shape
\* on, so the chain returns the shape of x when every Block accepts it
StageForward(stage, x) ==
    IF \A j \in DOMAIN stage : BlockForward(stage[j], x) = x THEN x ELSE ShapeError

RECURSIVE FeaturesLoop(_, _, _)
FeaturesLoop(self, x, n) ==
    IF n = 0 THEN x
    ELSE LET y == DownsampleForward(self.downsample_layers[n - 1],
                                    FeaturesLoop(self, x, n - 1))
         IN  StageForward(self.stages[n - 1], y)

\* ConvNeXt.forward_features: (N, C, H, W) -> (N, C)
ForwardFeatures(self, x) ==
    LET y == FeaturesLoop(self, x, NumStages)
    IN  [n |-> y.n, c |-> y.c]

\* ConvNeXt.forward
Forward(self, x) ==
    LET y == ForwardFeatures(self, x)
    IN  [n |-> y.n, c |-> self.head.out]

----------------------------------------------------------------------------
(* Inputs *)

DropPathRates == {0, 3, 16777216, 16777217, 16777219}
LayerScaleInits == {0, 1}
HeadInitScales == {1, 2}
DimsInputs == {DefaultDims, Tuple0(<<128, 256, 512, 1024>>)}
DepthsInputs == [0..3 -> 0..MaxDepth]
DataFormatInputs == {"channels_last", "channels_first", "channels_middle", "NCHW"}
BatchSize == 2
Images == {[n |-> BatchSize, c |-> DefaultInChans, h |-> 224, w |-> 224]}

NoModel == [raised |-> "unbuilt"]
NoOutput == [n |-> 0, c |-> 0]
NoName == <<>>

----------------------------------------------------------------------------
(* State machine *)

Init ==
    /\ pc = "start"
    /\ model = NoModel
    /\ entry = NoName
    /\ calls = 0
    /\ out = NoOutput
    /\ ln = NoModel
    /\ ln_format = "unbuilt"
    /\ ln_out = [none |-> FALSE, shape |-> NoOutput]

\* ConvNeXt(...) called directly, the activation left at its default
ConstructConvNeXt ==
    /\ pc = "start"
    /\ \E depths \in DepthsInputs, dims \in DimsInputs, rate \in DropPathRates,
          lsiv \in LayerScaleInits, his \in HeadInitScales :
          model' = ConvNeXtInit(DefaultInChans, DefaultNumClasses, depths, dims,
                                rate, lsiv, his, GELU)
    /\ pc' = "constructed"
    /\ UNCHANGED <<entry, calls, out, ln, ln_format, ln_out>>

\* a registered constructor called by its name; kwargs carry the rate and
\* the layer scale through to ConvNeXt
CreateModel ==
    /\ pc = "start"
    /\ \E e \in Registry, rate \in DropPathRates, lsiv \in LayerScaleInits :
          /\ model' = ConvNeXtInit(DefaultInChans, DefaultNumClasses, e.depths, e.dims,
                                   rate, lsiv, 1, e.act)
          /\ entry' = e.name
    /\ pc' = "constructed"
    /\ UNCHANGED <<calls, out, ln, ln_format, ln_out>>

\* variant: forward scales the head again
CallForward_Rescale ==
    /\ pc = "constructed"
    /\ model.raised = "no"
    /\ calls < MaxCalls
    /\ \E x \in Images : out' = Forward(model, x)
    /\ calls' = calls + 1
    /\ model' = [model EXCEPT !.head_mul = Append(@, 1)]
    /\ UNCHANGED <<pc, entry, ln, ln_format, ln_out>>

CallForward ==
    /\ pc = "constructed"
    /\ model.raised = "no"
    /\ calls < MaxCalls
    /\ \E x \in Images : out' = Forward(model, x)
    /\ calls' = calls + 1
    /\ UNCHANGED <<pc, model, entry, ln, ln_format, ln_out>>

CallForwardFeatures ==
    /\ pc = "constructed"
    /\ model.raised = "no"
    /\ calls < MaxCalls
    /\ \E x \in Images : out' = ForwardFeatures(model, x)
    /\ calls' = calls + 1
    /\ UNCHANGED <<pc, model, entry, ln, ln_format, ln_out>>

\* LayerNorm(normalized_shape, data_format=...) constructed on its own
ConstructLayerNorm ==
    /\ pc = "start"
    /\ \E data_format \in DataFormatInputs, shape \in {96, 192} :
          /\ ln' = LayerNormInit(shape, data_format)
          /\ ln_format' = data_format
    /\ pc' = "layernorm"
    /\ UNCHANGED <<model, entry, calls, out, ln_out>>

CallLayerNorm ==
    /\ pc = "layernorm"
    /\ ln.raised = "no"
    /\ calls < MaxCalls
    /\ \E n \in {1, BatchSize} :
          ln_out' = LayerNormForward(ln, [n |-> n, c |-> ln.normalized_shape])
    /\ calls' = calls + 1
    /\ UNCHANGED <<pc, model, entry, out, ln, ln_format>>

Next ==
    \/ ConstructConvNeXt
    \/ CreateModel
    \/ CallForward
    \/ CallForwardFeatures
    \/ ConstructLayerNorm
    \/ CallLayerNorm

Spec == Init /\ [][Next]_vars

----------------------------------------------------------------------------
(* Reading a constructor's name *)

IsSubAt(name, sub, k) ==
    /\ k >= 1
    /\ k + Len(sub) - 1 <= Len(name)
    /\ \A i \in 1..Len(sub) : name[k + i - 1] = sub[i]

Contains(name, sub) == \E k \in 1..Len(name) : IsSubAt(name, sub, k)

EndsWith(name, sub) == IsSubAt(name, sub, Len(name) - Len(sub) + 1)

DigitChars == <<"0", "1", "2", "3", "4", "5", "6", "7", "8", "9">>

IsDigit(c) == \E d \in 1..10 : DigitChars[d] = c

DigitVal(c) == (CHOOSE d \in 1..10 : DigitChars[d] = c) - 1

RECURSIVE ParseNat(_, _, _)
ParseNat(name, k, acc) ==
    IF k <= Len(name) /\ IsDigit(name[k])
    THEN ParseNat(name, k + 1, 10 * acc + DigitVal(name[k]))
    ELSE acc

DegToken == <<"_", "d", "e", "g">>

HasDegToken(name) ==
    \E k \in 1..Len(name) :
        IsSubAt(name, DegToken, k) /\ k + 4 <= Len(name) /\ IsDigit(name[k + 4])

NameFamily(name) ==
    IF Contains(name, <<"_", "h", "e", "r", "m", "i", "t", "e", "_">>) THEN "HermiteActivation"
    ELSE IF Contains(name, <<"_", "f", "o", "u", "r", "i", "e", "r", "_">>) THEN "FourierActivation"
    ELSE IF Contains(name, <<"_", "t", "r", "o", "p", "i", "c", "a", "l", "_">>) THEN "TropicalActivation"
    ELSE "none"

NameDegree(name) ==
    IF HasDegToken(name)
    THEN ParseNat(name, (CHOOSE k \in 1..Len(name) : IsSubAt(name, DegToken, k)) + 4, 0)
    ELSE IF NameFamily(name) = "HermiteActivation" THEN 3 ELSE 5

NameDepths(name) ==
    IF EndsWith(name, <<"_", "t", "i", "n", "y">>) THEN Tuple0(<<3, 3, 9, 3>>)
    ELSE Tuple0(<<3, 3, 27, 3>>)

NameDims(name) ==
    IF EndsWith(name, <<"_", "b", "a", "s", "e">>) THEN Tuple0(<<128, 256, 512, 1024>>)
    ELSE Tuple0(<<96, 192, 384, 768>>)

NameHasSize(name) ==
    \/ EndsWith(name, <<"_", "t", "i", "n", "y">>)
    \/ EndsWith(name, <<"_", "s", "m", "a", "l", "l">>)
    \/ EndsWith(name, <<"_", "b", "a", "s", "e">>)

\* the keyword arguments the name announces
NameKeys(name) ==
    {"degree"}
    \cup (IF Contains(name, <<"c", "l", "a", "m", "p">>) THEN {"clamp"} ELSE {})
    \cup (IF Contains(name, <<"g", "e", "l", "u">>) THEN {"act_init"} ELSE {})
    \cup (IF Contains(name, <<"n", "o", "_", "g", "r", "a", "d">>) THEN {"requires_grad"} ELSE {})

ActMatchesName(act, name) ==
    /\ act.cls = NameFamily(name)
    /\ DOMAIN act.kw = NameKeys(name)
    /\ act.kw.degree = NameDegree(name)
    /\ "clamp" \in DOMAIN act.kw => act.kw.clamp = "True"
    /\ "act_init" \in DOMAIN act.kw => act.kw.act_init = "GELU"
    /\ "requires_grad" \in DOMAIN act.kw => act.kw.requires_grad = "False"

----------------------------------------------------------------------------
(* Views of a constructed model *)

Built == pc = "constructed" /\ model.raised = "no"

Registered == Built /\ entry # NoName

BlockIds ==
    UNION {{<<i, j>> : j \in DOMAIN model.stages[i]} : i \in 0..(NumStages - 1)}

BlockAt(ij) == model.stages[ij[1]][ij[2]]

\* the Blocks in the order the network runs them
BlocksInOrder ==
    ConcatTo([i \in 0..(NumStages - 1) |->
                 [j1 \in 1..PyLen(model.stages[i]) |-> model.stages[i][j1 - 1]]],
             NumStages)

ParametricActivations == {"HermiteActivation", "FourierActivation", "TropicalActivation"}

\* the activation's parameters are trained: requires_grad was not switched off
Learnable(act) ==
    ~("requires_grad" \in DOMAIN act.kw /\ act.kw.requires_grad = "False")

PathOf(kind, i, j, sub) == [kind |-> kind, i |-> i, j |-> j, sub |-> sub]

----------------------------------------------------------------------------
(* C1 *)

\* C1 (as stated): every Block of every registered model uses a Hermite,
\* Fourier or Tropical activation whose parameters are learnable, and no
\* Block falls back to nn.GELU.
C1_AllLearnable ==
    Registered =>
        \A ij \in BlockIds :
            /\ BlockAt(ij).act.cls \in ParametricActivations
            /\ BlockAt(ij).act.cls # "GELU"
            /\ Learnable(BlockAt(ij).act)

\* C1 (amended): every Block of every registered model uses a Hermite,
\* Fourier or Tropical activation and never nn.GELU; its parameters are left
\* learnable exactly when the constructor's name has no 'no_grad': the three
\* no_grad constructors pass requires_grad=False.
C1_ParametricActivation ==
    Registered =>
        \A ij \in BlockIds :
            /\ BlockAt(ij).act.cls \in ParametricActivations
            /\ BlockAt(ij).act.cls # "GELU"
            /\ Learnable(BlockAt(ij).act)
                   <=> ~Contains(entry, <<"n", "o", "_", "g", "r", "a", "d">>)

C1_Witness ==
    /\ Registered
    /\ Contains(entry, <<"n", "o", "_", "g", "r", "a", "d">>)
    /\ BlockIds # {}
    /\ \A ij \in BlockIds : ~Learnable(BlockAt(ij).act)

----------------------------------------------------------------------------
(* C2 *)

\* C2: a constructed ConvNeXt has exactly 4 downsampling layers, the stem
\* (convolution first) and 3 intermediate ones (normalisation first), and
\* exactly 4 stages; stage i has exactly depths[i] Blocks, each of dimension
\* dims[i]; the model holds depths[0]+depths[1]+depths[2]+depths[3] Blocks.
C2_Topology ==
    Built =>
        /\ DOMAIN model.downsample_layers = 0..3
        /\ model.downsample_layers[0][0].type = "Conv2d"
        /\ \A k \in 1..3 : model.downsample_layers[k][0].type = "LayerNorm"
        /\ DOMAIN model.stages = 0..3
        /\ \A i \in 0..3 :
              /\ DOMAIN model.stages[i] = 0..(model.depths[i] - 1)
              /\ \A j \in DOMAIN model.stages[i] : model.stages[i][j].dim = model.dims[i]
        /\ Cardinality({m \in model.modules : m.type = "Block"})
               = model.depths[0] + model.depths[1] + model.depths[2] + model.depths[3]
        /\ Len(BlocksInOrder)
               = model.depths[0] + model.depths[1] + model.depths[2] + model.depths[3]

C2_Witness ==
    /\ Built
    /\ model.depths[0] # model.depths[1]
    /\ model.depths[2] > 0
    /\ model.stages[2][0].dim = model.dims[2]
    /\ model.dims[2] # model.dims[0]

----------------------------------------------------------------------------
(* C3 *)

\* C3: LayerNorm has exactly two data formats: its construction succeeds for
\* 'channels_last' and 'channels_first' and raises NotImplementedError for
\* any other value, and forward on a constructed LayerNorm returns a tensor,
\* never None.
C3_TwoDataFormats ==
    /\ pc = "layernorm" =>
          /\ ln_format \in {"channels_last", "channels_first"}
                 => ln.raised = "no" /\ ln.data_format = ln_format
          /\ ln_format \notin {"channels_last", "channels_first"}
                 => ln.raised = "NotImplementedError"
          /\ ~ln_out.none
          /\ calls > 0 => ln_out.shape.c = ln.normalized_shape
    /\ Built =>
          \A ij \in BlockIds :
              /\ BlockAt(ij).norm.raised = "no"
              /\ BlockAt(ij).norm.data_format = "channels_last"

C3_Witness ==
    /\ pc = "layernorm"
    /\ ln_format = "channels_first"
    /\ ln.raised = "no"
    /\ calls > 0
    /\ ~ln_out.none
    /\ ln_out.shape.n > 0

----------------------------------------------------------------------------
(* C4 *)

\* the Conv2d and Linear modules, read off the structure of the model
ConvAndLinearPaths ==
    {PathOf("downsample_layers", k, 0, "0") : k \in {0}}
    \cup {PathOf("downsample_layers", k, 0, "1") : k \in 1..3}
    \cup {PathOf("stages", ij[1], ij[2], sub) :
             ij \in BlockIds, sub \in {"dwconv", "pwconv1", "pwconv2"}}
    \cup {HeadPath}

InitialisedOnce ==
    LET expected == ConvAndLinearPaths
    IN  /\ expected \subseteq DOMAIN model.init_calls
        /\ \A p \in DOMAIN model.init_calls :
              model.init_calls[p] = IF p \in expected THEN 1 ELSE 0
        /\ Len(model.head_mul) = 1

\* C4: initialisation runs exactly once for every Conv2d / Linear module and
\* the head is scaled once, inside ConvNeXt.__init__; no later forward or
\* forward_features call changes the modules, a Block's gamma or drop_path
\* choice, or a parameter.
C4_NoLifecycleBeyondInit ==
    /\ [](Built => InitialisedOnce)
    /\ [][pc = "constructed" => model' = model]_vars

C4_Witness ==
    /\ Built
    /\ calls >= 2
    /\ out.c > 0
    /\ BlockIds # {}
    /\ InitialisedOnce

----------------------------------------------------------------------------
(* C5 *)

\* C5: a registered name determines the configuration: the size suffix gives
\* depths and dims (tiny [3,3,9,3] / [96,192,384,768], small [3,3,27,3] /
\* [96,192,384,768], base [3,3,27,3] / [128,256,512,1024]), the family token
\* gives the activation class, 'degN' gives degree=N (absent: 3 for hermite,
\* 5 for fourier and tropical), and clamp=True, act_init=GELU and
\* requires_grad=False are passed exactly by the names holding 'clamp',
\* 'gelu' and 'no_grad'.
C5_NameDeterminesConfig ==
    Registered =>
        /\ NameHasSize(entry)
        /\ model.depths = NameDepths(entry)
        /\ model.dims = NameDims(entry)
        /\ \A e \in Registry : e.name = entry =>
              /\ e.depths = NameDepths(entry)
              /\ e.dims = NameDims(entry)
              /\ ActMatchesName(e.act, entry)
              /\ \A ij \in BlockIds : BlockAt(ij).act = e.act

C5_Witness ==
    /\ Registered
    /\ HasDegToken(entry)
    /\ NameDegree(entry) = 12
    /\ Contains(entry, <<"g", "e", "l", "u">>)
    /\ BlockAt(<<2, 8>>).act.kw.degree = 12
    /\ BlockAt(<<2, 8>>).act.kw.act_init = "GELU"

----------------------------------------------------------------------------
(* C6 *)

NumBlocks == PySum(model.depths)

\* the parts of the schedule that hold as stated
ScheduleInOrder ==
    LET blocks == BlocksInOrder
        n == NumBlocks
    IN  /\ model.dp_index = [k \in 1..n |-> k - 1]
        /\ Len(blocks) = n
        /\ \A k \in 1..n : blocks[k].rate = model.dp_rates[k - 1]
        /\ \A k \in 1..(n - 1) : blocks[k].rate <= blocks[k + 1].rate
        /\ n > 0 =>
              /\ blocks[1].rate = 0
              /\ blocks[1].drop_path = "Identity"

LastBlock == model.stages[3][model.depths[3] - 1]

\* C6 (as stated): the indices cur + j are 0 .. sum(depths)-1, each once and
\* in block order, the rates are non-decreasing, the first Block has rate 0
\* and an Identity drop_path, and the last Block of the last stage has rate
\* exactly drop_path_rate.
C6_LastRateIsDropPathRate ==
    pc = "constructed" =>
        /\ model.raised = "no"
        /\ ScheduleInOrder
        /\ model.depths[3] > 0 => LastBlock.rate = model.drop_path_rate

\* C6 (amended): as stated, except for the last Block of the last stage: its
\* rate is drop_path_rate rounded to float32 when the model has two Blocks
\* or more, and 0 when it is the only Block of the model.
C6_Schedule ==
    pc = "constructed" =>
        /\ model.raised = "no"
        /\ ScheduleInOrder
        /\ model.depths[3] > 0 =>
              LastBlock.rate = IF NumBlocks >= 2
                               THEN Float32(model.drop_path_rate, 1)
                               ELSE 0

C6_Witness ==
    /\ Built
    /\ model.depths[3] > 0
    /\ NumBlocks >= 2
    /\ model.depths[1] = 0
    /\ LastBlock.rate # model.drop_path_rate
    /\ LastBlock.rate = 16777220
    /\ LastBlock.drop_path = "DropPath"
    /\ model.dp_index = [k \in 1..NumBlocks |-> k - 1]

====
